---- MODULE Spec2Model ----
(***************************************************************************)
(* State-machine model of the custicle engine: the winit application       *)
(* shell (src/engine/src/lib.rs) and the Vulkan Renderer                   *)
(* (src/engine/src/renderer.rs): construction, capability negotiation and  *)
(* teardown.                                                               *)
(***************************************************************************)
EXTENDS Integers, Sequences, FiniteSets, TLC

VARIABLES
    pc,                         \* position of the running code
    debug,                      \* DEBUG_MODE_ENABLED = cfg!(debug_assertions)
    queue_families,             \* driver: queue family properties of the adapter at hand
    queue_family_indices,       \* result of find_queue_families
    surface_capabilities,       \* driver: SurfaceCapabilitiesKHR
    window_size,                \* windowing layer: inner_size() and scale_factor()
    swapchain_extent,           \* result of chose_swapchain_extent
    swapchain_min_image_count,  \* image count requested in create_swapchain
    surface_formats,            \* driver: supported surface formats
    surface_format,             \* result of chose_swapchain_surface_format
    physical_devices,           \* driver: the adapters, in enumeration order
    physical_device,            \* Renderer.physical_device: the adapter selected
    app_window,                 \* App.window
    app_renderer,               \* App.renderer
    redraw_requested,           \* windowing layer: a redraw has been requested
    live,                       \* driver: the handles that exist
    calls,                      \* driver: every create and destroy call, in order
    steps,                      \* the steps of Renderer::new started, in order
    completed,                  \* how many of them have returned
    failure,                    \* the step that panicked, if any
    swapchain_images,           \* number of images of the swapchain
    cursor,                     \* position of the image-view loop under way
    surface_present_modes,      \* driver: supported present modes
    surface_present_mode,       \* result of chose_swapchain_present_mode
    swapchain_sharing,          \* sharing mode and family indices of the swapchain
    candidate,                  \* the adapter is_physical_device_suitable is asked about
    suitable,                   \* result of is_physical_device_suitable
    selection,                  \* what select_physical_device did
    device_queues               \* queue requests and queue handles of the logical device

policyVars == <<queue_families, queue_family_indices, surface_capabilities,
                window_size, swapchain_extent, swapchain_min_image_count,
                surface_formats, surface_format>>

appVars == <<physical_devices, physical_device, app_window, app_renderer,
             redraw_requested, live, calls, steps, completed, failure,
             swapchain_images, cursor>>

deviceVars == <<surface_present_modes, surface_present_mode, swapchain_sharing,
               candidate, suitable, selection, device_queues>>

vars == <<pc, debug, policyVars, appVars, deviceVars>>

(***************************************************************************)
(* Bounds of the model.                                                    *)
(***************************************************************************)
MaxFamilies == 3
MaxDim == 3
MaxCount == 3
MaxFormats == 3
MaxDevices == 2
MaxImages == 2
MaxModes == 3
\* The largest value of the program's unsigned integers (u32::MAX). TLC's
\* integers are 32-bit signed, so the model's word is narrower than the
\* program's 32 bits; the code only compares such values, adds 1 to them and
\* tests them against this maximum, which no width below changes.
U32Max == 1073741823

(***************************************************************************)
(* Values of the program.                                                  *)
(***************************************************************************)
\* Option<T>: None is the empty sequence, Some(x) the one-element sequence.
None == <<>>
Some(x) == <<x>>
is_some(o) == Len(o) = 1
unwrap(o) == o[1]

\* The outcome of a call that can panic: the returned value, or the panic.
Panicked == <<>>
Returned(x) == <<x>>
has_returned(r) == Len(r) = 1

\* A value not yet computed.
Unset == <<>>

RECURSIVE SeqsUpTo(_, _)
SeqsUpTo(S, n) ==
    IF n = 0 THEN {<<>>}
    ELSE LET shorter == SeqsUpTo(S, n - 1)
         IN shorter \cup {Append(s, x) : s \in {t \in shorter : Len(t) = n - 1}, x \in S}

(***************************************************************************)
(* QueueFamilyIndices and find_queue_families.                             *)
(***************************************************************************)
\* One queue family as the driver reports it: whether its queue_flags hold
\* GRAPHICS and whether get_physical_device_surface_support answers true.
QueueFamily == [graphics : BOOLEAN, present : BOOLEAN]

QueueFamilyIndices_new ==
    [graphics_family |-> None, present_family |-> None, inspected |-> 0]

is_complete(qfi) == is_some(qfi.graphics_family) /\ is_some(qfi.present_family)

usize_into_u32(value) == IF value <= U32Max THEN Returned(value) ELSE Panicked

\* One iteration of the loop's body on the family at position i (1-based;
\* the code's index is i - 1). inspected counts the families looked at.
find_queue_families_body(families, i, qfi) ==
    LET index == unwrap(usize_into_u32(i - 1))
    IN [graphics_family |-> IF families[i].graphics THEN Some(index)
                            ELSE qfi.graphics_family,
        present_family  |-> IF families[i].present THEN Some(index)
                            ELSE qfi.present_family,
        inspected       |-> qfi.inspected + 1]

RECURSIVE find_queue_families_from(_, _, _)
find_queue_families_from(families, i, qfi) ==
    IF i > Len(families) THEN qfi
    ELSE LET next == find_queue_families_body(families, i, qfi)
         IN IF is_complete(next) THEN next
            ELSE find_queue_families_from(families, i + 1, next)

find_queue_families(families) ==
    find_queue_families_from(families, 1, QueueFamilyIndices_new)

(***************************************************************************)
(* chose_swapchain_extent.                                                 *)
(***************************************************************************)
Extent2D(w, h) == [width |-> w, height |-> h]

\* u32::clamp: panics unless min <= max.
u32_clamp(value, min, max) ==
    IF min > max THEN Panicked
    ELSE IF value < min THEN Returned(min)
    ELSE IF value > max THEN Returned(max)
    ELSE Returned(value)

\* PhysicalSize::to_logical::<u32>: divide by the scale factor, round to nearest.
to_logical(size, scale_factor) ==
    Extent2D((2 * size.width + scale_factor) \div (2 * scale_factor),
             (2 * size.height + scale_factor) \div (2 * scale_factor))

\* Variant: the sentinel is looked for in the height instead of the width.
chose_swapchain_extent_tests_height(caps, window) ==
    IF caps.current_extent.height # U32Max
    THEN Returned(caps.current_extent)
    ELSE Returned(to_logical(window.inner_size, window.scale_factor))

chose_swapchain_extent(caps, window) ==
    IF caps.current_extent.width # U32Max
    THEN Returned(caps.current_extent)
    ELSE LET logical_inner_size == to_logical(window.inner_size, window.scale_factor)
             width == u32_clamp(logical_inner_size.width,
                                caps.min_image_extent.width,
                                caps.min_image_extent.height)
             height == u32_clamp(logical_inner_size.height,
                                 caps.min_image_extent.height,
                                 caps.max_image_extent.height)
         IN IF has_returned(width) /\ has_returned(height)
            THEN Returned(Extent2D(unwrap(width), unwrap(height)))
            ELSE Panicked

(***************************************************************************)
(* Image count requested in create_swapchain.                              *)
(***************************************************************************)
\* u32 addition: overflow panics in a build with debug assertions and wraps
\* in a build without.
u32_add(a, b, debug_build) ==
    IF a + b <= U32Max THEN Returned(a + b)
    ELSE IF debug_build THEN Panicked
    ELSE Returned((a + b) % (U32Max + 1))

\* Variant: the surface maximum is never applied.
chose_min_image_count_uncapped(caps, debug_build) ==
    u32_add(caps.min_image_count, 1, debug_build)

chose_min_image_count(caps, debug_build) ==
    LET plus_one == u32_add(caps.min_image_count, 1, debug_build)
    IN IF ~has_returned(plus_one) THEN Panicked
       ELSE IF caps.max_image_count > 0 /\ caps.max_image_count < unwrap(plus_one)
       THEN Returned(caps.max_image_count)
       ELSE plus_one

(***************************************************************************)
(* chose_swapchain_surface_format.                                         *)
(***************************************************************************)
Formats == {"R8G8B8A8_SRGB", "B8G8R8A8_SRGB", "R8G8B8A8_UNORM"}
ColorSpaces == {"SRGB_NONLINEAR", "EXTENDED_SRGB_LINEAR"}
SurfaceFormatKHR == [format : Formats, color_space : ColorSpaces]

is_preferred_format(f) ==
    f.format = "R8G8B8A8_SRGB" /\ f.color_space = "SRGB_NONLINEAR"

RECURSIVE chose_swapchain_surface_format_from(_, _)
chose_swapchain_surface_format_from(formats, i) ==
    IF i > Len(formats)
    THEN (IF Len(formats) = 0 THEN Panicked ELSE Returned(formats[1]))
    ELSE IF is_preferred_format(formats[i]) THEN Returned(formats[i])
    ELSE chose_swapchain_surface_format_from(formats, i + 1)

\* Variant: the first entry is taken without looking for the preferred one.
chose_swapchain_surface_format_first(formats) ==
    IF Len(formats) = 0 THEN Panicked ELSE Returned(formats[1])

chose_swapchain_surface_format(formats) ==
    chose_swapchain_surface_format_from(formats, 1)

(***************************************************************************)
(* Inputs of the capability-negotiation functions.                         *)
(***************************************************************************)
SurfaceCapabilitiesKHR(current, min, max, min_count, max_count) ==
    [current_extent  |-> current,
     min_image_extent |-> min,
     max_image_extent |-> max,
     min_image_count |-> min_count,
     max_image_count |-> max_count]

Window(inner_size, scale_factor) ==
    [inner_size |-> inner_size, scale_factor |-> scale_factor]

Dims == 1..MaxDim
ScaleFactors == {1, 2}
\* Extents the surface can report as current: a size, or the sentinel.
CurrentExtents == {Extent2D(w, h) : w \in Dims \cup {U32Max}, h \in Dims \cup {U32Max}}
\* Bounds with min <= max on each axis, as the driver guarantees.
ExtentBounds ==
    {b \in [min : {Extent2D(w, h) : w \in Dims, h \in Dims},
            max : {Extent2D(w, h) : w \in Dims, h \in Dims}] :
        b.min.width <= b.max.width /\ b.min.height <= b.max.height}
WindowSizes ==
    {Window(Extent2D(w, h), s) : w \in 0..(MaxDim + 1), h \in 0..(MaxDim + 1),
                                 s \in ScaleFactors}
ImageCounts == (0..MaxCount) \cup {U32Max - 1, U32Max}

DefaultCaps == SurfaceCapabilitiesKHR(Extent2D(1, 1), Extent2D(1, 1), Extent2D(1, 1), 1, 0)
DefaultWindow == Window(Extent2D(1, 1), 1)

\* The variables of capability negotiation before any negotiation.
PolicyIdle ==
    /\ queue_families = <<>>
    /\ queue_family_indices = Unset
    /\ surface_capabilities = DefaultCaps
    /\ window_size = DefaultWindow
    /\ swapchain_extent = Unset
    /\ swapchain_min_image_count = Unset
    /\ surface_formats = <<>>
    /\ surface_format = Unset

\* The variables of adapter selection and device creation before either.
DeviceIdle ==
    /\ surface_present_modes = <<>>
    /\ surface_present_mode = Unset
    /\ swapchain_sharing = Unset
    /\ candidate = Unset
    /\ suitable = Unset
    /\ selection = Unset
    /\ device_queues = Unset

\* The variables of the application at rest (no application is running).
AppIdle ==
    /\ physical_devices = <<>>
    /\ physical_device = None
    /\ app_window = "none"
    /\ app_renderer = "none"
    /\ redraw_requested = FALSE
    /\ live = {}
    /\ calls = <<>>
    /\ steps = <<>>
    /\ completed = 0
    /\ failure = None
    /\ swapchain_images = 0
    /\ cursor = 0

(***************************************************************************)
(* find_queue_families applied to every list of queue families.            *)
(***************************************************************************)
InitQueueFamilies ==
    /\ pc = "find_queue_families"
    /\ debug = FALSE
    /\ AppIdle
    /\ DeviceIdle
    /\ queue_families \in SeqsUpTo(QueueFamily, MaxFamilies)
    /\ queue_family_indices = Unset
    /\ surface_capabilities = DefaultCaps
    /\ window_size = DefaultWindow
    /\ swapchain_extent = Unset
    /\ swapchain_min_image_count = Unset
    /\ surface_formats = <<>>
    /\ surface_format = Unset

CallFindQueueFamilies ==
    /\ pc = "find_queue_families"
    /\ queue_family_indices' = Some(find_queue_families(queue_families))
    /\ pc' = "returned"
    /\ UNCHANGED <<deviceVars, debug, appVars, queue_families, surface_capabilities, window_size,
                   swapchain_extent, swapchain_min_image_count, surface_formats,
                   surface_format>>

NextQueueFamilies == CallFindQueueFamilies

SpecQueueFamilies == InitQueueFamilies /\ [][NextQueueFamilies]_vars

(***************************************************************************)
(* chose_swapchain_extent applied to every capabilities record and window. *)
(***************************************************************************)
InitExtent ==
    /\ pc = "chose_swapchain_extent"
    /\ debug = FALSE
    /\ AppIdle
    /\ DeviceIdle
    /\ queue_families = <<>>
    /\ queue_family_indices = Unset
    /\ \E current \in CurrentExtents, b \in ExtentBounds :
           surface_capabilities = SurfaceCapabilitiesKHR(current, b.min, b.max, 1, 0)
    /\ window_size \in WindowSizes
    /\ swapchain_extent = Unset
    /\ swapchain_min_image_count = Unset
    /\ surface_formats = <<>>
    /\ surface_format = Unset

CallChoseSwapchainExtent ==
    /\ pc = "chose_swapchain_extent"
    /\ swapchain_extent' = Some(chose_swapchain_extent(surface_capabilities, window_size))
    /\ pc' = "returned"
    /\ UNCHANGED <<deviceVars, debug, appVars, queue_families, queue_family_indices,
                   surface_capabilities, window_size, swapchain_min_image_count,
                   surface_formats, surface_format>>

NextExtent == CallChoseSwapchainExtent

SpecExtent == InitExtent /\ [][NextExtent]_vars

(***************************************************************************)
(* The image count of create_swapchain for every (minimum, maximum).       *)
(***************************************************************************)
InitImageCount ==
    /\ pc = "chose_min_image_count"
    /\ debug \in BOOLEAN
    /\ AppIdle
    /\ DeviceIdle
    /\ queue_families = <<>>
    /\ queue_family_indices = Unset
    /\ \E m \in ImageCounts, M \in ImageCounts :
           surface_capabilities =
               SurfaceCapabilitiesKHR(Extent2D(1, 1), Extent2D(1, 1), Extent2D(1, 1), m, M)
    /\ window_size = DefaultWindow
    /\ swapchain_extent = Unset
    /\ swapchain_min_image_count = Unset
    /\ surface_formats = <<>>
    /\ surface_format = Unset

CallChoseMinImageCount ==
    /\ pc = "chose_min_image_count"
    /\ swapchain_min_image_count' = Some(chose_min_image_count(surface_capabilities, debug))
    /\ pc' = "returned"
    /\ UNCHANGED <<deviceVars, debug, appVars, queue_families, queue_family_indices,
                   surface_capabilities, window_size, swapchain_extent,
                   surface_formats, surface_format>>

NextImageCount == CallChoseMinImageCount

SpecImageCount == InitImageCount /\ [][NextImageCount]_vars

(***************************************************************************)
(* chose_swapchain_surface_format applied to every list of formats.        *)
(***************************************************************************)
InitFormat ==
    /\ pc = "chose_swapchain_surface_format"
    /\ debug = FALSE
    /\ AppIdle
    /\ DeviceIdle
    /\ queue_families = <<>>
    /\ queue_family_indices = Unset
    /\ surface_capabilities = DefaultCaps
    /\ window_size = DefaultWindow
    /\ swapchain_extent = Unset
    /\ swapchain_min_image_count = Unset
    /\ surface_formats \in SeqsUpTo(SurfaceFormatKHR, MaxFormats)
    /\ surface_format = Unset

CallChoseSwapchainSurfaceFormat ==
    /\ pc = "chose_swapchain_surface_format"
    /\ surface_format' = Some(chose_swapchain_surface_format(surface_formats))
    /\ pc' = "returned"
    /\ UNCHANGED <<deviceVars, debug, appVars, queue_families, queue_family_indices,
                   surface_capabilities, window_size, swapchain_extent,
                   swapchain_min_image_count, surface_formats>>

NextFormat == CallChoseSwapchainSurfaceFormat

SpecFormat == InitFormat /\ [][NextFormat]_vars

(***************************************************************************)
(* chose_swapchain_present_mode applied to every list of present modes.    *)
(***************************************************************************)
PresentModeKHR == {"IMMEDIATE", "MAILBOX", "FIFO", "FIFO_RELAXED"}

RECURSIVE chose_swapchain_present_mode_from(_, _)
chose_swapchain_present_mode_from(modes, i) ==
    IF i > Len(modes) THEN "FIFO"
    ELSE IF modes[i] = "MAILBOX" THEN modes[i]
    ELSE chose_swapchain_present_mode_from(modes, i + 1)

\* A selection that answers with the first listed mode when MAILBOX is absent.
chose_swapchain_present_mode_listed(modes) ==
    IF \E i \in 1..Len(modes) : modes[i] = "MAILBOX" THEN Returned("MAILBOX")
    ELSE IF Len(modes) = 0 THEN Panicked
    ELSE Returned(modes[1])

chose_swapchain_present_mode(modes) ==
    Returned(chose_swapchain_present_mode_from(modes, 1))

InitPresentMode ==
    /\ pc = "chose_swapchain_present_mode"
    /\ debug = FALSE
    /\ AppIdle
    /\ PolicyIdle
    /\ surface_present_modes \in SeqsUpTo(PresentModeKHR, MaxModes)
    /\ surface_present_mode = Unset
    /\ swapchain_sharing = Unset
    /\ candidate = Unset
    /\ suitable = Unset
    /\ selection = Unset
    /\ device_queues = Unset

CallChoseSwapchainPresentMode ==
    /\ pc = "chose_swapchain_present_mode"
    /\ surface_present_mode' = Some(chose_swapchain_present_mode(surface_present_modes))
    /\ pc' = "returned"
    /\ UNCHANGED <<debug, policyVars, appVars, surface_present_modes, swapchain_sharing,
                   candidate, suitable, selection, device_queues>>

NextPresentMode == CallChoseSwapchainPresentMode

SpecPresentMode == InitPresentMode /\ [][NextPresentMode]_vars

(***************************************************************************)
(* The sharing mode create_swapchain asks for, for every list of families. *)
(***************************************************************************)
\* A swapchain that is never shared between families.
swapchain_image_sharing_exclusive(indices) ==
    IF ~is_complete(indices) THEN Panicked
    ELSE Returned([queue_family_indices |-> indices,
                   image_sharing_mode |-> "EXCLUSIVE",
                   queue_family_index_count |-> 0,
                   p_queue_family_indices |-> <<>>])

\* The fields of SwapchainCreateInfoKHR set from the resolved families; the
\* others keep their defaults (EXCLUSIVE, no index).
swapchain_image_sharing(indices) ==
    IF ~is_complete(indices) THEN Panicked
    ELSE LET queue_family_indices_vec == <<unwrap(indices.graphics_family),
                                           unwrap(indices.present_family)>>
         IN IF unwrap(indices.graphics_family) # unwrap(indices.present_family)
            THEN Returned([queue_family_indices |-> indices,
                           image_sharing_mode |-> "CONCURRENT",
                           queue_family_index_count |-> 2,
                           p_queue_family_indices |-> queue_family_indices_vec])
            ELSE Returned([queue_family_indices |-> indices,
                           image_sharing_mode |-> "EXCLUSIVE",
                           queue_family_index_count |-> 0,
                           p_queue_family_indices |-> <<>>])

InitSharingMode ==
    /\ pc = "swapchain_image_sharing"
    /\ debug = FALSE
    /\ AppIdle
    /\ DeviceIdle
    /\ queue_families \in SeqsUpTo(QueueFamily, MaxFamilies)
    /\ queue_family_indices = Unset
    /\ surface_capabilities = DefaultCaps
    /\ window_size = DefaultWindow
    /\ swapchain_extent = Unset
    /\ swapchain_min_image_count = Unset
    /\ surface_formats = <<>>
    /\ surface_format = Unset

CallSwapchainImageSharing ==
    /\ pc = "swapchain_image_sharing"
    /\ LET indices == find_queue_families(queue_families)
       IN /\ queue_family_indices' = Some(indices)
          /\ swapchain_sharing' = Some(swapchain_image_sharing(indices))
    /\ pc' = "returned"
    /\ UNCHANGED <<debug, appVars, queue_families, surface_capabilities, window_size,
                   swapchain_extent, swapchain_min_image_count, surface_formats,
                   surface_format, surface_present_modes, surface_present_mode,
                   candidate, suitable, selection, device_queues>>

NextSharingMode == CallSwapchainImageSharing

SpecSharingMode == InitSharingMode /\ [][NextSharingMode]_vars

(***************************************************************************)
(* The queues create_logical_device asks for, for every list of families.  *)
(***************************************************************************)
\* Iteration of a BTreeSet<u32>: its members in ascending order.
RECURSIVE btree_set_iter(_)
btree_set_iter(set) ==
    IF set = {} THEN <<>>
    ELSE LET least == CHOOSE x \in set : \A y \in set : x <= y
         IN <<least>> \o btree_set_iter(set \ {least})

DeviceQueueCreateInfo(queue_family) ==
    [queue_family_index |-> queue_family, queue_count |-> 1, queue_priority |-> "1.0"]

\* The handle the driver gives for a queue of a family of the device.
get_device_queue(queue_family_index, queue_index) ==
    <<"queue", queue_family_index, queue_index>>

\* Requests made role by role: one for graphics and one for present.
device_queue_create_infos_per_role(indices) ==
    <<DeviceQueueCreateInfo(unwrap(indices.graphics_family)),
      DeviceQueueCreateInfo(unwrap(indices.present_family))>>

\* queues_create_info_vec for resolved (complete) indices.
device_queue_create_infos(indices) ==
    LET unique_queue_families == {unwrap(indices.graphics_family),
                                  unwrap(indices.present_family)}
        families == btree_set_iter(unique_queue_families)
    IN [i \in 1..Len(families) |-> DeviceQueueCreateInfo(families[i])]

\* create_logical_device; created is the driver's answer to create_device.
create_logical_device(indices, created) ==
    IF ~is_complete(indices) THEN Panicked
    ELSE LET queues_create_info_vec == device_queue_create_infos(indices)
             count == usize_into_u32(Len(queues_create_info_vec))
         IN IF ~has_returned(count) \/ ~created THEN Panicked
            ELSE Returned([queue_create_infos |-> queues_create_info_vec,
                           queue_create_info_count |-> unwrap(count),
                           graphics_queue |->
                               get_device_queue(unwrap(indices.graphics_family), 0),
                           present_queue |->
                               get_device_queue(unwrap(indices.present_family), 0)])

InitLogicalDevice ==
    /\ pc = "create_logical_device"
    /\ debug = FALSE
    /\ AppIdle
    /\ DeviceIdle
    /\ queue_families \in SeqsUpTo(QueueFamily, MaxFamilies)
    /\ queue_family_indices = Unset
    /\ surface_capabilities = DefaultCaps
    /\ window_size = DefaultWindow
    /\ swapchain_extent = Unset
    /\ swapchain_min_image_count = Unset
    /\ surface_formats = <<>>
    /\ surface_format = Unset

CallCreateLogicalDevice ==
    /\ pc = "create_logical_device"
    /\ \E created \in BOOLEAN :
        LET indices == find_queue_families(queue_families)
        IN /\ queue_family_indices' = Some(indices)
           /\ device_queues' = Some(create_logical_device(indices, created))
    /\ pc' = "returned"
    /\ UNCHANGED <<debug, appVars, queue_families, surface_capabilities, window_size,
                   swapchain_extent, swapchain_min_image_count, surface_formats,
                   surface_format, surface_present_modes, surface_present_mode,
                   swapchain_sharing, candidate, suitable, selection>>

NextLogicalDevice == CallCreateLogicalDevice

SpecLogicalDevice == InitLogicalDevice /\ [][NextLogicalDevice]_vars

(***************************************************************************)
(* Adapters and their selection.                                           *)
(***************************************************************************)
DEVICE_EXTENSIONS == {"VK_KHR_swapchain"}

PhysicalDeviceCandidate(families, extensions, formats, modes, caps) ==
    [families |-> families, extensions |-> extensions, formats |-> formats,
     modes |-> modes, caps |-> caps]

query_swapchain_support_details(device) ==
    [surface_capabilities |-> device.caps,
     surface_formats |-> device.formats,
     surface_present_modes |-> device.modes]

check_physical_device_extension_support(device) ==
    DEVICE_EXTENSIONS \ device.extensions = {}

\* A suitability that does not look at the queue families.
is_physical_device_suitable_any_families(device) ==
    /\ check_physical_device_extension_support(device)
    /\ Len(device.formats) # 0
    /\ Len(device.modes) # 0

\* A suitability that does not look at the extensions.
is_physical_device_suitable_any_extension(device) ==
    /\ is_complete(find_queue_families(device.families))
    /\ Len(device.formats) # 0
    /\ Len(device.modes) # 0

is_physical_device_suitable(device) ==
    LET indices == find_queue_families(device.families)
        extension_support == check_physical_device_extension_support(device)
        swapchain_details == query_swapchain_support_details(device)
        swapchain_adequate ==
            IF extension_support
            THEN /\ Len(swapchain_details.surface_formats) # 0
                 /\ Len(swapchain_details.surface_present_modes) # 0
            ELSE FALSE
    IN is_complete(indices) /\ extension_support /\ swapchain_adequate

\* What a run of select_physical_device did: the position (from 1) of the
\* adapter returned or the panic and its message, and how many adapters
\* is_physical_device_suitable was asked about.
Selection(returned, examined, message) ==
    [returned |-> returned, examined |-> examined, message |-> message]

\* A scan that asks about every adapter and returns the last suitable one.
select_physical_device_last(devices, i) ==
    LET found == {j \in i..Len(devices) : is_physical_device_suitable(devices[j])}
    IN IF found = {}
       THEN Selection(Panicked, Len(devices), "no suitable physical device found!")
       ELSE Selection(Returned(CHOOSE j \in found : \A k \in found : k <= j),
                      Len(devices), "")

RECURSIVE select_physical_device_from(_, _)
select_physical_device_from(devices, i) ==
    IF i > Len(devices)
    THEN Selection(Panicked, i - 1, "no suitable physical device found!")
    ELSE IF is_physical_device_suitable(devices[i]) THEN Selection(Returned(i), i, "")
    ELSE select_physical_device_from(devices, i + 1)

\* enumerated is the driver's answer to enumerate_physical_devices.
select_physical_device(enumerated) ==
    IF ~has_returned(enumerated) \/ Len(unwrap(enumerated)) = 0
    THEN Selection(Panicked, 0, "couldn't find any physical device!")
    ELSE select_physical_device_from(unwrap(enumerated), 1)

(***************************************************************************)
(* The driver: handles, what each is created from, and its calls.          *)
(***************************************************************************)
Handle(kind, n) == <<kind, n>>

Instance == Handle("instance", 0)
DebugMessenger == Handle("debug_messenger", 0)
Surface == Handle("surface", 0)
LogicalDevice == Handle("device", 0)
Swapchain == Handle("swapchain", 0)
ImageView(i) == Handle("image_view", i)
RenderPass == Handle("render_pass", 0)
VertShaderModule == Handle("shader_module", 1)
FragShaderModule == Handle("shader_module", 2)
PipelineLayout == Handle("pipeline_layout", 0)
Pipeline == Handle("pipeline", 0)

\* The handles a handle was created from and stays valid with: the loader or
\* parent object of its create call and the handles its create-info names.
DependsOn(handle) ==
    CASE handle[1] = "instance" -> {}
      [] handle[1] = "debug_messenger" -> {Instance}
      [] handle[1] = "surface" -> {Instance}
      [] handle[1] = "device" -> {Instance}
      [] handle[1] = "swapchain" -> {LogicalDevice, Surface}
      [] handle[1] = "image_view" -> {LogicalDevice, Swapchain}
      [] handle[1] = "render_pass" -> {LogicalDevice}
      [] handle[1] = "shader_module" -> {LogicalDevice}
      [] handle[1] = "pipeline_layout" -> {LogicalDevice}
      [] handle[1] = "pipeline" -> {LogicalDevice, RenderPass, PipelineLayout}

\* What a create call reads: the dependencies and, for the pipeline, the two
\* shader modules of its stages.
CreateUses(handle) ==
    IF handle = Pipeline
    THEN DependsOn(handle) \cup {VertShaderModule, FragShaderModule}
    ELSE DependsOn(handle)

\* A create call the driver accepted (ok) or rejected, by Renderer::new.
CreateCall(handle, ok) ==
    [op |-> "create", handle |-> handle, by |-> "new", ok |-> ok,
     deps_live |-> CreateUses(handle) \subseteq live]

\* A destroy call; ok tells whether the handle existed.
DestroyCall(handle, by) ==
    [op |-> "destroy", handle |-> handle, by |-> by, ok |-> handle \in live,
     deps_live |-> DependsOn(handle) \subseteq live]

DriverCreate(handle, ok) ==
    /\ calls' = Append(calls, CreateCall(handle, ok))
    /\ live' = IF ok THEN live \cup {handle} ELSE live

DriverDestroy(handle, by) ==
    /\ calls' = Append(calls, DestroyCall(handle, by))
    /\ live' = live \ {handle}

(***************************************************************************)
(* Renderer::new.                                                          *)
(***************************************************************************)
\* Variant: the surface is created after the adapter is selected.
NewOrder_surface_late ==
    <<"create_instance", "select_physical_device", "create_surface",
      "create_logical_device", "create_swapchain", "create_render_pass",
      "create_graphics_pipeline">>

\* The steps of Renderer::new in the order of its body.
NewOrder ==
    <<"create_instance", "create_surface", "select_physical_device",
      "create_logical_device", "create_swapchain", "create_render_pass",
      "create_graphics_pipeline">>

\* The position after `step`: the step that follows it in `order`, or `last`.
following(order, step, last) ==
    LET at == {i \in 1..Len(order) : order[i] = step}
    IN IF at = {} THEN last
       ELSE LET i == CHOOSE i \in at : TRUE
            IN IF i < Len(order) THEN order[i + 1] ELSE last

new_next(step) == following(NewOrder, step, "built")

\* Variant: a failure is ignored and the code goes on.
expect_goes_on(ok, next) == next

\* Result::expect, Option::unwrap and assert!: the code goes on when the
\* value is there and panics when it is not.
expect(ok, next) == IF ok THEN next ELSE "panicked"

\* The bookkeeping of a step: started, and returned when it has.
Begin(step) == steps' = Append(steps, step)
Return(ok) == completed' = IF ok THEN completed + 1 ELSE completed
Failure(ok) == failure' = IF ok THEN failure ELSE Some(pc)

\* App::resumed, first half: the window is created.
CreateWindow ==
    /\ pc = "resumed"
    /\ \E ok \in BOOLEAN :
        /\ app_window' = IF ok THEN "alive" ELSE app_window
        /\ Failure(ok)
        /\ pc' = expect(ok, NewOrder[1])
    /\ UNCHANGED <<deviceVars, debug, policyVars, physical_devices, physical_device, app_renderer,
                   redraw_requested, live, calls, steps, completed,
                   swapchain_images, cursor>>

\* create_instance up to the instance's creation.
CreateInstance ==
    /\ pc = "create_instance"
    /\ Begin("create_instance")
    /\ \E ok \in BOOLEAN :
        /\ DriverCreate(Instance, ok)
        /\ Failure(ok)
        /\ pc' = expect(ok, "create_debug_messenger")
    /\ UNCHANGED <<deviceVars, debug, policyVars, physical_devices, physical_device, app_window,
                   app_renderer, redraw_requested, completed, swapchain_images, cursor>>

\* create_debug_messenger, the end of create_instance: no messenger unless
\* DEBUG_MODE_ENABLED.
CreateDebugMessenger ==
    /\ pc = "create_debug_messenger"
    /\ \/ /\ ~debug
          /\ Return(TRUE)
          /\ pc' = new_next("create_instance")
          /\ UNCHANGED <<live, calls, failure>>
       \/ /\ debug
          /\ \E ok \in BOOLEAN :
              /\ DriverCreate(DebugMessenger, ok)
              /\ Return(ok)
              /\ Failure(ok)
              /\ pc' = expect(ok, new_next("create_instance"))
    /\ UNCHANGED <<deviceVars, debug, policyVars, physical_devices, physical_device, app_window,
                   app_renderer, redraw_requested, steps, swapchain_images, cursor>>

CreateSurface ==
    /\ pc = "create_surface"
    /\ Begin("create_surface")
    /\ \E ok \in BOOLEAN :
        /\ DriverCreate(Surface, ok)
        /\ Return(ok)
        /\ Failure(ok)
        /\ pc' = expect(ok, new_next("create_surface"))
    /\ UNCHANGED <<deviceVars, debug, policyVars, physical_devices, physical_device, app_window,
                   app_renderer, redraw_requested, swapchain_images, cursor>>

\* select_physical_device; the driver may fail to answer its queries.
SelectPhysicalDevice ==
    /\ pc = "select_physical_device"
    /\ Begin("select_physical_device")
    /\ \E answered \in BOOLEAN :
        LET enumerated == IF answered THEN Returned(physical_devices) ELSE Panicked
            selected == select_physical_device(enumerated)
            ok == has_returned(selected.returned)
        IN /\ physical_device' = selected.returned
           /\ selection' = Some([enumerated |-> enumerated, selected |-> selected])
           /\ Return(ok)
           /\ Failure(ok)
           /\ pc' = expect(ok, new_next("select_physical_device"))
    /\ UNCHANGED <<debug, policyVars, physical_devices, app_window, app_renderer,
                   redraw_requested, live, calls, swapchain_images, cursor,
                   surface_present_modes, surface_present_mode, swapchain_sharing,
                   candidate, suitable, device_queues>>

\* The adapter Renderer::new goes on with.
Selected == physical_devices[unwrap(physical_device)]

CreateLogicalDevice ==
    /\ pc = "create_logical_device"
    /\ is_some(physical_device)
    /\ Begin("create_logical_device")
    /\ LET indices == find_queue_families(Selected.families)
       IN /\ queue_families' = Selected.families
          /\ queue_family_indices' = Some(indices)
          /\ \/ /\ ~is_complete(indices)
                /\ device_queues' = Some(create_logical_device(indices, FALSE))
                /\ Return(FALSE)
                /\ Failure(FALSE)
                /\ pc' = expect(FALSE, new_next("create_logical_device"))
                /\ UNCHANGED <<live, calls>>
             \/ /\ is_complete(indices)
                /\ \E ok \in BOOLEAN :
                    /\ DriverCreate(LogicalDevice, ok)
                    /\ device_queues' = Some(create_logical_device(indices, ok))
                    /\ Return(ok)
                    /\ Failure(ok)
                    /\ pc' = expect(ok, new_next("create_logical_device"))
    /\ UNCHANGED <<debug, surface_capabilities, window_size, swapchain_extent,
                   swapchain_min_image_count, surface_formats, surface_format,
                   physical_devices, physical_device, app_window, app_renderer,
                   redraw_requested, swapchain_images, cursor,
                   surface_present_modes, surface_present_mode, swapchain_sharing,
                   candidate, suitable, selection>>

\* create_swapchain up to the retrieval of the swapchain's images.
CreateSwapchain ==
    /\ pc = "create_swapchain"
    /\ is_some(physical_device)
    /\ Begin("create_swapchain")
    /\ LET surface_details == query_swapchain_support_details(Selected)
           format == chose_swapchain_surface_format(surface_details.surface_formats)
           mode == chose_swapchain_present_mode(surface_details.surface_present_modes)
           extent == chose_swapchain_extent(surface_details.surface_capabilities,
                                            window_size)
           count == chose_min_image_count(surface_details.surface_capabilities, debug)
           indices == find_queue_families(Selected.families)
           negotiated == /\ has_returned(format)
                         /\ has_returned(extent)
                         /\ has_returned(count)
                         /\ is_complete(indices)
       IN /\ surface_capabilities' = surface_details.surface_capabilities
          /\ surface_formats' = surface_details.surface_formats
          /\ surface_format' = Some(format)
          /\ surface_present_modes' = surface_details.surface_present_modes
          /\ surface_present_mode' = IF has_returned(format) THEN Some(mode) ELSE Unset
          /\ swapchain_extent' = IF has_returned(format) THEN Some(extent) ELSE Unset
          /\ swapchain_min_image_count' =
                 IF has_returned(format) /\ has_returned(extent)
                 THEN Some(count) ELSE Unset
          /\ swapchain_sharing' =
                 IF has_returned(format) /\ has_returned(extent) /\ has_returned(count)
                 THEN Some(swapchain_image_sharing(indices)) ELSE Unset
          /\ \/ /\ ~negotiated
                /\ Failure(FALSE)
                /\ pc' = expect(FALSE, "create_image_view")
                /\ UNCHANGED <<live, calls, swapchain_images>>
             \/ /\ negotiated
                /\ \E ok \in BOOLEAN, n \in 1..MaxImages :
                    /\ DriverCreate(Swapchain, ok)
                    /\ swapchain_images' = IF ok THEN n ELSE swapchain_images
                    /\ Failure(ok)
                    /\ pc' = expect(ok, "create_image_view")
    /\ cursor' = 0
    /\ UNCHANGED <<debug, queue_families, queue_family_indices, window_size,
                   physical_devices, physical_device, app_window, app_renderer,
                   redraw_requested, completed, candidate, suitable, selection,
                   device_queues>>

\* One turn of create_swapchain's loop over the images; the last one ends
\* create_swapchain.
CreateImageView ==
    /\ pc = "create_image_view"
    /\ cursor < swapchain_images
    /\ \E ok \in BOOLEAN :
        LET last == cursor + 1 = swapchain_images
        IN /\ DriverCreate(ImageView(cursor + 1), ok)
           /\ Return(ok /\ last)
           /\ Failure(ok)
           /\ pc' = expect(ok, IF last THEN new_next("create_swapchain")
                               ELSE "create_image_view")
    /\ cursor' = cursor + 1
    /\ UNCHANGED <<deviceVars, debug, policyVars, physical_devices, physical_device, app_window,
                   app_renderer, redraw_requested, steps, swapchain_images>>

CreateRenderPass ==
    /\ pc = "create_render_pass"
    /\ Begin("create_render_pass")
    /\ \E ok \in BOOLEAN :
        /\ DriverCreate(RenderPass, ok)
        /\ Return(ok)
        /\ Failure(ok)
        /\ pc' = expect(ok, new_next("create_render_pass"))
    /\ UNCHANGED <<deviceVars, debug, policyVars, physical_devices, physical_device, app_window,
                   app_renderer, redraw_requested, swapchain_images, cursor>>

\* create_graphics_pipeline: the two shader binaries are read.
ReadShaders ==
    /\ pc = "create_graphics_pipeline"
    /\ Begin("create_graphics_pipeline")
    /\ \E ok \in BOOLEAN :
        /\ Failure(ok)
        /\ pc' = expect(ok, "create_vert_shader_module")
    /\ UNCHANGED <<deviceVars, debug, policyVars, physical_devices, physical_device, app_window,
                   app_renderer, redraw_requested, live, calls, completed,
                   swapchain_images, cursor>>

\* A step inside create_graphics_pipeline that creates one handle.
PipelineStepCreates(at, handle, next) ==
    /\ pc = at
    /\ \E ok \in BOOLEAN :
        /\ DriverCreate(handle, ok)
        /\ Failure(ok)
        /\ pc' = expect(ok, next)
    /\ UNCHANGED <<deviceVars, debug, policyVars, physical_devices, physical_device, app_window,
                   app_renderer, redraw_requested, steps, completed,
                   swapchain_images, cursor>>

CreateVertShaderModule ==
    PipelineStepCreates("create_vert_shader_module", VertShaderModule,
                        "create_frag_shader_module")

CreateFragShaderModule ==
    PipelineStepCreates("create_frag_shader_module", FragShaderModule,
                        "create_pipeline_layout")

CreatePipelineLayout ==
    PipelineStepCreates("create_pipeline_layout", PipelineLayout,
                        "create_graphics_pipelines")

\* Variant: the fragment shader module is not destroyed after the pipeline
\* is created.
CreateGraphicsPipelines_keeps_frag ==
    PipelineStepCreates("create_graphics_pipelines", Pipeline,
                        "destroy_vert_shader_module")

CreateGraphicsPipelines ==
    PipelineStepCreates("create_graphics_pipelines", Pipeline,
                        "destroy_frag_shader_module")

DestroyFragShaderModule ==
    /\ pc = "destroy_frag_shader_module"
    /\ DriverDestroy(FragShaderModule, "new")
    /\ pc' = "destroy_vert_shader_module"
    /\ UNCHANGED <<deviceVars, debug, policyVars, physical_devices, physical_device, app_window,
                   app_renderer, redraw_requested, steps, completed, failure,
                   swapchain_images, cursor>>

\* The last call of create_graphics_pipeline, which then returns.
DestroyVertShaderModule ==
    /\ pc = "destroy_vert_shader_module"
    /\ DriverDestroy(VertShaderModule, "new")
    /\ Return(TRUE)
    /\ pc' = new_next("create_graphics_pipeline")
    /\ UNCHANGED <<deviceVars, debug, policyVars, physical_devices, physical_device, app_window,
                   app_renderer, redraw_requested, steps, failure,
                   swapchain_images, cursor>>

\* Renderer::new returns the Renderer and App::resumed stores it.
StoreRenderer ==
    /\ pc = "built"
    /\ app_renderer' = "some"
    /\ pc' = "running"
    /\ UNCHANGED <<deviceVars, debug, policyVars, physical_devices, physical_device, app_window,
                   redraw_requested, live, calls, steps, completed, failure,
                   swapchain_images, cursor>>

\* A panic ends the process: App::new's `app` is dropped while unwinding when
\* the panic unwinds, and is not when the process aborts. No Renderer was
\* stored, so none is dropped.
Abort ==
    /\ pc = "panicked"
    /\ \E unwinds \in BOOLEAN :
        app_window' = IF unwinds /\ app_window = "alive" THEN "dropped" ELSE app_window
    /\ pc' = "aborted"
    /\ UNCHANGED <<deviceVars, debug, policyVars, physical_devices, physical_device, app_renderer,
                   redraw_requested, live, calls, steps, completed, failure,
                   swapchain_images, cursor>>

(***************************************************************************)
(* App::window_event.                                                      *)
(***************************************************************************)
\* CloseRequested: event_loop.exit(), after which run_app returns.
CloseRequested ==
    /\ pc = "running"
    /\ pc' = "exiting"
    /\ UNCHANGED <<deviceVars, debug, policyVars, appVars>>

\* RedrawRequested: window.request_redraw().
RedrawRequested ==
    /\ pc = "running"
    /\ redraw_requested' = TRUE
    /\ UNCHANGED <<deviceVars, pc, debug, policyVars, physical_devices, physical_device,
                   app_window, app_renderer, live, calls, steps, completed, failure,
                   swapchain_images, cursor>>

\* App::new returns and drops `app`, its fields in the order of their
\* declaration: the window before the renderer.
DropWindow ==
    /\ pc = "exiting"
    /\ app_window' = "dropped"
    /\ pc' = "drop"
    /\ UNCHANGED <<deviceVars, debug, policyVars, physical_devices, physical_device, app_renderer,
                   redraw_requested, live, calls, steps, completed, failure,
                   swapchain_images, cursor>>

(***************************************************************************)
(* impl Drop for Renderer.                                                 *)
(***************************************************************************)
\* Variant: the render pass is destroyed before the pipeline layout.
DropOrder_render_pass_early ==
    <<"destroy_pipeline", "destroy_render_pass", "destroy_pipeline_layout",
      "destroy_image_views", "destroy_swapchain", "destroy_device",
      "destroy_surface", "destroy_debug_utils_messenger", "destroy_instance">>

\* Variant: the logical device is destroyed before the swapchain.
DropOrder_device_first ==
    <<"destroy_pipeline", "destroy_pipeline_layout", "destroy_render_pass",
      "destroy_image_views", "destroy_device", "destroy_swapchain",
      "destroy_surface", "destroy_debug_utils_messenger", "destroy_instance">>

\* Variant: drop ends before the instance is destroyed.
DropOrder_instance_kept ==
    <<"destroy_pipeline", "destroy_pipeline_layout", "destroy_render_pass",
      "destroy_image_views", "destroy_swapchain", "destroy_device",
      "destroy_surface", "destroy_debug_utils_messenger">>

\* The destroy calls of drop in the order of its body.
DropOrder ==
    <<"destroy_pipeline", "destroy_pipeline_layout", "destroy_render_pass",
      "destroy_image_views", "destroy_swapchain", "destroy_device",
      "destroy_surface", "destroy_debug_utils_messenger", "destroy_instance">>

drop_next(step) == following(DropOrder, step, "dropped")

\* Renderer.debug_ctx: Some exactly when create_debug_messenger made one.
debug_ctx == IF debug THEN Some(DebugMessenger) ELSE None

\* drop is entered.
DropRenderer ==
    /\ pc = "drop"
    /\ app_renderer = "some"
    /\ pc' = DropOrder[1]
    /\ cursor' = 0
    /\ UNCHANGED <<deviceVars, debug, policyVars, physical_devices, physical_device, app_window,
                   app_renderer, redraw_requested, live, calls, steps, completed,
                   failure, swapchain_images>>

\* A step of drop that destroys one handle.
DropStepDestroys(at, handle) ==
    /\ pc = at
    /\ DriverDestroy(handle, "drop")
    /\ pc' = drop_next(at)
    /\ UNCHANGED <<deviceVars, debug, policyVars, physical_devices, physical_device, app_window,
                   app_renderer, redraw_requested, steps, completed, failure,
                   swapchain_images, cursor>>

DestroyPipeline == DropStepDestroys("destroy_pipeline", Pipeline)

DestroyPipelineLayout == DropStepDestroys("destroy_pipeline_layout", PipelineLayout)

DestroyRenderPass == DropStepDestroys("destroy_render_pass", RenderPass)

\* Variant: every turn of the loop destroys the first view.
image_view_at_first(turn) == ImageView(1)

\* The image view the loop of drop destroys at its turn `turn` (from 0):
\* swapchain_image_views.iter() goes from the first view to the last.
image_view_at(turn) == ImageView(turn + 1)

\* One turn of the loop over swapchain_image_views.
DestroyImageView ==
    /\ pc = "destroy_image_views"
    /\ \/ /\ cursor < swapchain_images
          /\ DriverDestroy(image_view_at(cursor), "drop")
          /\ cursor' = cursor + 1
          /\ pc' = pc
       \/ /\ cursor >= swapchain_images
          /\ pc' = drop_next("destroy_image_views")
          /\ UNCHANGED <<live, calls, cursor>>
    /\ UNCHANGED <<deviceVars, debug, policyVars, physical_devices, physical_device, app_window,
                   app_renderer, redraw_requested, steps, completed, failure,
                   swapchain_images>>

DestroySwapchain == DropStepDestroys("destroy_swapchain", Swapchain)

DestroyDevice == DropStepDestroys("destroy_device", LogicalDevice)

DestroySurface == DropStepDestroys("destroy_surface", Surface)

\* The messenger is destroyed if debug_ctx holds one.
DestroyDebugUtilsMessenger ==
    /\ pc = "destroy_debug_utils_messenger"
    /\ \/ /\ is_some(debug_ctx)
          /\ DriverDestroy(unwrap(debug_ctx), "drop")
       \/ /\ ~is_some(debug_ctx)
          /\ UNCHANGED <<live, calls>>
    /\ pc' = drop_next("destroy_debug_utils_messenger")
    /\ UNCHANGED <<deviceVars, debug, policyVars, physical_devices, physical_device, app_window,
                   app_renderer, redraw_requested, steps, completed, failure,
                   swapchain_images, cursor>>

DestroyInstance == DropStepDestroys("destroy_instance", Instance)

\* drop returns; the process ends.
Dropped ==
    /\ pc = "dropped"
    /\ app_renderer' = "dropped"
    /\ pc' = "exited"
    /\ UNCHANGED <<deviceVars, debug, policyVars, physical_devices, physical_device, app_window,
                   redraw_requested, live, calls, steps, completed, failure,
                   swapchain_images, cursor>>

(***************************************************************************)
(* The application from App::new to the end of the process.                *)
(***************************************************************************)
Preferred == [format |-> "R8G8B8A8_SRGB", color_space |-> "SRGB_NONLINEAR"]
Fallback == [format |-> "B8G8R8A8_SRGB", color_space |-> "SRGB_NONLINEAR"]
Graphics == [graphics |-> TRUE, present |-> FALSE]
Present == [graphics |-> FALSE, present |-> TRUE]
GraphicsPresent == [graphics |-> TRUE, present |-> TRUE]
FixedCaps ==
    SurfaceCapabilitiesKHR(Extent2D(2, 2), Extent2D(1, 1), Extent2D(3, 3), 2, 3)
AnyExtentCaps ==
    SurfaceCapabilitiesKHR(Extent2D(U32Max, U32Max), Extent2D(1, 1), Extent2D(3, 3), 2, 0)
WideMinCaps ==
    SurfaceCapabilitiesKHR(Extent2D(U32Max, U32Max), Extent2D(2, 1), Extent2D(3, 3), 1, 1)

\* The adapters a machine may hold: unsuitable ones (the swapchain
\* extension, a queue capability or the formats missing) and suitable ones.
DeviceCatalog ==
    {PhysicalDeviceCandidate(<<GraphicsPresent>>, {}, <<Preferred>>, <<"FIFO">>, FixedCaps),
     PhysicalDeviceCandidate(<<Graphics>>, DEVICE_EXTENSIONS, <<Preferred>>, <<"FIFO">>,
                             FixedCaps),
     PhysicalDeviceCandidate(<<GraphicsPresent>>, DEVICE_EXTENSIONS, <<>>, <<"FIFO">>,
                             FixedCaps),
     PhysicalDeviceCandidate(<<GraphicsPresent>>, DEVICE_EXTENSIONS, <<Preferred>>,
                             <<"FIFO">>, FixedCaps),
     PhysicalDeviceCandidate(<<Graphics, Present>>, DEVICE_EXTENSIONS,
                             <<Fallback, Preferred>>, <<"FIFO", "MAILBOX">>, AnyExtentCaps),
     PhysicalDeviceCandidate(<<Graphics, GraphicsPresent>>, DEVICE_EXTENSIONS,
                             <<Fallback>>, <<"IMMEDIATE">>, FixedCaps),
     PhysicalDeviceCandidate(<<GraphicsPresent>>, DEVICE_EXTENSIONS, <<Preferred>>,
                             <<"FIFO">>, WideMinCaps)}

\* The window sizes the application is run with.
AppWindows == {Window(Extent2D(2, 2), 1), Window(Extent2D(4, 4), 1)}

Init ==
    /\ pc = "resumed"
    /\ debug \in BOOLEAN
    /\ queue_families = <<>>
    /\ queue_family_indices = Unset
    /\ surface_capabilities = DefaultCaps
    /\ window_size \in AppWindows
    /\ swapchain_extent = Unset
    /\ swapchain_min_image_count = Unset
    /\ surface_formats = <<>>
    /\ surface_format = Unset
    /\ physical_devices \in SeqsUpTo(DeviceCatalog, MaxDevices)
    /\ physical_device = None
    /\ app_window = "none"
    /\ app_renderer = "none"
    /\ redraw_requested = FALSE
    /\ live = {}
    /\ calls = <<>>
    /\ steps = <<>>
    /\ completed = 0
    /\ failure = None
    /\ swapchain_images = 0
    /\ cursor = 0
    /\ DeviceIdle

Next ==
    \/ CreateWindow
    \/ CreateInstance
    \/ CreateDebugMessenger
    \/ CreateSurface
    \/ SelectPhysicalDevice
    \/ CreateLogicalDevice
    \/ CreateSwapchain
    \/ CreateImageView
    \/ CreateRenderPass
    \/ ReadShaders
    \/ CreateVertShaderModule
    \/ CreateFragShaderModule
    \/ CreatePipelineLayout
    \/ CreateGraphicsPipelines
    \/ DestroyFragShaderModule
    \/ DestroyVertShaderModule
    \/ StoreRenderer
    \/ Abort
    \/ CloseRequested
    \/ RedrawRequested
    \/ DropWindow
    \/ DropRenderer
    \/ DestroyPipeline
    \/ DestroyPipelineLayout
    \/ DestroyRenderPass
    \/ DestroyImageView
    \/ DestroySwapchain
    \/ DestroyDevice
    \/ DestroySurface
    \/ DestroyDebugUtilsMessenger
    \/ DestroyInstance
    \/ Dropped

Spec == Init /\ [][Next]_vars

\* The steps the program takes by itself once the event loop has been told
\* to exit: run_app returns, App::new ends and drops `app`.
Shutdown ==
    \/ DropWindow
    \/ DropRenderer
    \/ DestroyPipeline
    \/ DestroyPipelineLayout
    \/ DestroyRenderPass
    \/ DestroyImageView
    \/ DestroySwapchain
    \/ DestroyDevice
    \/ DestroySurface
    \/ DestroyDebugUtilsMessenger
    \/ DestroyInstance
    \/ Dropped

\* The application on one thread whose calls all return: a shutdown under
\* way goes on. Window events are the user's and may never come.
SpecShutdown == Spec /\ WF_vars(Shutdown)

(***************************************************************************)
(* is_physical_device_suitable applied to every adapter.                   *)
(***************************************************************************)
DeviceExtensionNames == {"VK_KHR_swapchain", "VK_KHR_maintenance1"}

Candidates ==
    {PhysicalDeviceCandidate(families, extensions, formats, modes, FixedCaps) :
        families \in SeqsUpTo(QueueFamily, MaxFamilies),
        extensions \in SUBSET DeviceExtensionNames,
        formats \in {<<>>, <<Preferred>>},
        modes \in {<<>>, <<"FIFO">>}}

InitSuitable ==
    /\ pc = "is_physical_device_suitable"
    /\ debug = FALSE
    /\ AppIdle
    /\ PolicyIdle
    /\ surface_present_modes = <<>>
    /\ surface_present_mode = Unset
    /\ swapchain_sharing = Unset
    /\ candidate \in {Some(device) : device \in Candidates}
    /\ suitable = Unset
    /\ selection = Unset
    /\ device_queues = Unset

\* The driver may fail to answer a query of the adapter.
CallIsPhysicalDeviceSuitable ==
    /\ pc = "is_physical_device_suitable"
    /\ \E answered \in BOOLEAN :
        suitable' = Some(IF answered
                         THEN Returned(is_physical_device_suitable(unwrap(candidate)))
                         ELSE Panicked)
    /\ pc' = "returned"
    /\ UNCHANGED <<debug, policyVars, appVars, surface_present_modes,
                   surface_present_mode, swapchain_sharing, candidate, selection,
                   device_queues>>

NextSuitable == CallIsPhysicalDeviceSuitable

SpecSuitable == InitSuitable /\ [][NextSuitable]_vars

(***************************************************************************)
(* select_physical_device applied to every enumeration of adapters.        *)
(***************************************************************************)
InitSelect ==
    /\ pc = "select_physical_device"
    /\ debug = FALSE
    /\ PolicyIdle
    /\ DeviceIdle
    /\ physical_devices \in SeqsUpTo(DeviceCatalog, MaxDevices)
    /\ physical_device = Unset
    /\ app_window = "none"
    /\ app_renderer = "none"
    /\ redraw_requested = FALSE
    /\ live = {}
    /\ calls = <<>>
    /\ steps = <<>>
    /\ completed = 0
    /\ failure = None
    /\ swapchain_images = 0
    /\ cursor = 0

\* The driver may fail to enumerate the adapters.
CallSelectPhysicalDevice ==
    /\ pc = "select_physical_device"
    /\ \E answered \in BOOLEAN :
        LET enumerated == IF answered THEN Returned(physical_devices) ELSE Panicked
            selected == select_physical_device(enumerated)
        IN /\ physical_device' = selected.returned
           /\ selection' = Some([enumerated |-> enumerated, selected |-> selected])
    /\ pc' = "returned"
    /\ UNCHANGED <<debug, policyVars, physical_devices, app_window, app_renderer,
                   redraw_requested, live, calls, steps, completed, failure,
                   swapchain_images, cursor, surface_present_modes,
                   surface_present_mode, swapchain_sharing, candidate, suitable,
                   device_queues>>

NextSelect == CallSelectPhysicalDevice

SpecSelect == InitSelect /\ [][NextSelect]_vars

(***************************************************************************)
(* Properties of the capability-negotiation functions.                     *)
(***************************************************************************)
\* The lowest index (as the code counts, from 0) of a family with the
\* capability, if there is one.
FirstIndexOf(families, capability) ==
    LET having == {i \in 1..Len(families) : families[i][capability]}
    IN IF having = {} THEN None
       ELSE Some((CHOOSE i \in having : \A j \in having : i <= j) - 1)

\* The number of families up to and including the first at which both a
\* graphics-capable and a present-capable family have been seen.
FamiliesUntilBoth(families) ==
    LET both == {k \in 1..Len(families) :
                    /\ \E i \in 1..k : families[i].graphics
                    /\ \E i \in 1..k : families[i].present}
    IN IF both = {} THEN Len(families)
       ELSE CHOOSE k \in both : \A j \in both : k <= j

\* C6: find_queue_families returns the lowest graphics-capable index and the
\* lowest present-capable index, each independently of the other, and
\* inspects no family after the first index at which both are resolved.
C6_LowestIndices ==
    pc = "returned" /\ queue_family_indices # Unset =>
        LET qfi == unwrap(queue_family_indices)
        IN /\ qfi.graphics_family = FirstIndexOf(queue_families, "graphics")
           /\ qfi.present_family = FirstIndexOf(queue_families, "present")
           /\ qfi.inspected <= FamiliesUntilBoth(queue_families)

HasSentinel(caps) == caps.current_extent.width = U32Max

\* C7: with the sentinel set, the derived width lies in [min width, max
\* width] and the derived height in [min height, max height].
C7_SentinelExtentWithinBounds ==
    pc = "returned" /\ swapchain_extent # Unset /\ HasSentinel(surface_capabilities)
        /\ has_returned(unwrap(swapchain_extent)) =>
        LET extent == unwrap(unwrap(swapchain_extent))
            caps == surface_capabilities
        IN /\ caps.min_image_extent.width <= extent.width
           /\ extent.width <= caps.max_image_extent.width
           /\ caps.min_image_extent.height <= extent.height
           /\ extent.height <= caps.max_image_extent.height

\* C8: without the sentinel, the derived extent is the surface-reported
\* current extent, whatever the window size and the min/max bounds are.
C8_CurrentExtentVerbatim ==
    pc = "returned" /\ swapchain_extent # Unset /\ ~HasSentinel(surface_capabilities) =>
        unwrap(swapchain_extent) = Returned(surface_capabilities.current_extent)

\* A call without the sentinel whose current extent is neither the window's
\* size nor within the min/max bounds, and whose height is the u32 maximum.
C8_Witness ==
    /\ pc = "returned"
    /\ swapchain_extent # Unset
    /\ surface_capabilities.current_extent.width = 3
    /\ surface_capabilities.current_extent.height = U32Max
    /\ surface_capabilities.max_image_extent = Extent2D(2, 2)
    /\ window_size.inner_size = Extent2D(1, 1)
    /\ unwrap(swapchain_extent) = Returned(Extent2D(3, U32Max))

\* The count the claim states for surface minimum m and maximum M.
ClaimedImageCount(m, M) == IF M > 0 /\ M < m + 1 THEN M ELSE m + 1

\* C9 as stated: for every surface minimum m and maximum M the requested
\* count is m+1 when M = 0 or m+1 <= M, and M when 0 < M < m+1.
C9_ImageCountEveryMinimum ==
    pc = "returned" /\ swapchain_min_image_count # Unset =>
        unwrap(swapchain_min_image_count) =
            Returned(ClaimedImageCount(surface_capabilities.min_image_count,
                                       surface_capabilities.max_image_count))

\* C9 amended: the same, for every surface minimum m below the u32 maximum
\* (so that m+1 is a u32); it gives 3 for (2,0), 3 for (2,3), 1 for (1,1).
C9_ImageCount ==
    pc = "returned" /\ swapchain_min_image_count # Unset =>
        LET m == surface_capabilities.min_image_count
            M == surface_capabilities.max_image_count
            count == unwrap(swapchain_min_image_count)
        IN /\ m < U32Max => count = Returned(ClaimedImageCount(m, M))
           /\ m = 2 /\ M = 0 => count = Returned(3)
           /\ m = 2 /\ M = 3 => count = Returned(3)
           /\ m = 1 /\ M = 1 => count = Returned(1)

\* The count was capped down from 2 to the surface maximum 1.
C9_Witness ==
    /\ pc = "returned"
    /\ surface_capabilities.min_image_count = 1
    /\ surface_capabilities.max_image_count = 1
    /\ swapchain_min_image_count = Some(Returned(1))

HasPreferredFormat(formats) ==
    \E i \in 1..Len(formats) : is_preferred_format(formats[i])

\* C10: over a non-empty list, format selection returns an entry with format
\* R8G8B8A8_SRGB and color space SRGB_NONLINEAR whenever the list holds one,
\* at any position, and the first entry of the list otherwise.
C10_PreferredFormatOrFirst ==
    pc = "returned" /\ surface_format # Unset /\ Len(surface_formats) > 0 =>
        /\ has_returned(unwrap(surface_format))
        /\ LET chosen == unwrap(unwrap(surface_format))
           IN IF HasPreferredFormat(surface_formats)
              THEN /\ chosen.format = "R8G8B8A8_SRGB"
                   /\ chosen.color_space = "SRGB_NONLINEAR"
                   /\ \E i \in 1..Len(surface_formats) : surface_formats[i] = chosen
              ELSE chosen = surface_formats[1]

\* The preferred entry is the last of three and was returned.
C10_Witness ==
    /\ pc = "returned"
    /\ Len(surface_formats) = 3
    /\ ~is_preferred_format(surface_formats[1])
    /\ ~is_preferred_format(surface_formats[2])
    /\ is_preferred_format(surface_formats[3])
    /\ surface_format = Some(Returned(surface_formats[3]))

(***************************************************************************)
(* Properties of construction and teardown.                                *)
(***************************************************************************)
\* The calls of drop, in order.
DropCalls == SelectSeq(calls, LAMBDA c : c.by = "drop")

\* The create calls, in order.
CreateCalls == SelectSeq(calls, LAMBDA c : c.op = "create")

Kinds(cs) == [i \in 1..Len(cs) |-> cs[i].handle[1]]

\* n times the element x.
Repeat(x, n) == [i \in 1..n |-> x]

\* The handles the driver created.
Created == {calls[i].handle : i \in {j \in 1..Len(calls) :
                                         calls[j].op = "create" /\ calls[j].ok}}

\* How many destroy calls were made on a handle.
DestroyCount(handle) ==
    Cardinality({i \in 1..Len(calls) :
                    calls[i].op = "destroy" /\ calls[i].handle = handle})

TornDown == pc = "exited" /\ app_renderer = "dropped"

\* The place of each kind of handle in the claimed order of teardown.
TeardownRank(kind) ==
    CASE kind = "pipeline" -> 1
      [] kind = "pipeline_layout" -> 2
      [] kind = "render_pass" -> 3
      [] kind = "image_view" -> 4
      [] kind = "swapchain" -> 5
      [] kind = "device" -> 6
      [] kind = "surface" -> 7
      [] kind = "debug_messenger" -> 8
      [] kind = "instance" -> 9
      [] OTHER -> 0

\* C1: drop issues its destroy calls in the order pipeline, pipeline layout,
\* render pass, every swapchain image view, swapchain, logical device,
\* surface, debug hook (only if one was created), instance; no call of a
\* later group precedes one of an earlier group.
C1_TeardownOrder ==
    /\ \A i \in 1..Len(DropCalls) :
        /\ DropCalls[i].op = "destroy"
        /\ TeardownRank(DropCalls[i].handle[1]) > 0
        /\ (DropCalls[i].handle = DebugMessenger => DebugMessenger \in Created)
        /\ \A j \in 1..Len(DropCalls) :
               (i < j => TeardownRank(DropCalls[i].handle[1])
                             <= TeardownRank(DropCalls[j].handle[1]))
    /\ TornDown =>
        /\ Kinds(DropCalls) =
               <<"pipeline", "pipeline_layout", "render_pass">>
               \o Repeat("image_view", swapchain_images)
               \o <<"swapchain", "device", "surface">>
               \o (IF DebugMessenger \in Created THEN <<"debug_messenger">> ELSE <<>>)
               \o <<"instance">>
        /\ \A i \in 1..swapchain_images :
               \E k \in 1..Len(DropCalls) : DropCalls[k].handle = ImageView(i)

\* A teardown that has ended, of a Renderer with a debug hook and two views.
C1_Witness ==
    /\ TornDown
    /\ DebugMessenger \in Created
    /\ swapchain_images = 2
    /\ Len(DropCalls) = 10

\* C2: during teardown no destroy call is issued on a handle one of whose
\* dependencies has already been destroyed.
C2_NoUseAfterDestroy ==
    \A i \in 1..Len(calls) :
        calls[i].by = "drop" => calls[i].op = "destroy" /\ calls[i].deps_live

\* Teardown has come to its last call: only the instance is left.
C2_Witness ==
    /\ pc = "destroy_instance"
    /\ app_renderer = "some"
    /\ live = {Instance}
    /\ Len(DropCalls) >= 7

\* The handles a successful construction creates.
AllHandles ==
    {Instance, Surface, LogicalDevice, Swapchain, RenderPass, VertShaderModule,
     FragShaderModule, PipelineLayout, Pipeline}
    \cup {ImageView(i) : i \in 1..swapchain_images}
    \cup (IF debug THEN {DebugMessenger} ELSE {})

\* C3: of a Renderer constructed and then torn down, every handle created
\* during construction is destroyed exactly once: none twice, none left.
C3_DestroyedExactlyOnce ==
    /\ \A i \in 1..Len(calls) :
           (calls[i].op = "destroy" =>
               /\ calls[i].ok
               /\ DestroyCount(calls[i].handle) = 1)
    /\ TornDown =>
        /\ Created = AllHandles
        /\ \A handle \in Created : DestroyCount(handle) = 1
        /\ live = {}

\* A Renderer with the most image views the driver gives has been torn down.
C3_Witness ==
    /\ TornDown
    /\ swapchain_images = MaxImages
    /\ Cardinality(Created) >= 11
    /\ live = {}

\* The order of construction the claim states.
ClaimedNewOrder ==
    <<"create_instance", "create_surface", "select_physical_device",
      "create_logical_device", "create_swapchain", "create_render_pass",
      "create_graphics_pipeline">>

\* The place of each kind of handle in the claimed order of construction.
ConstructionRank(kind) ==
    CASE kind = "instance" -> 1
      [] kind = "debug_messenger" -> 2
      [] kind = "surface" -> 3
      [] kind = "device" -> 4
      [] kind = "swapchain" -> 5
      [] kind = "image_view" -> 6
      [] kind = "render_pass" -> 7
      [] kind = "shader_module" -> 8
      [] kind = "pipeline_layout" -> 9
      [] kind = "pipeline" -> 10

\* C4: construction runs instance (with debug hook), surface, adapter
\* selection, logical device, swapchain and image views, render pass,
\* graphics pipeline, in this order; a step starts only after the one before
\* it has returned; every create call finds all it depends on alive.
C4_ConstructionOrder ==
    /\ Len(steps) <= Len(ClaimedNewOrder)
    /\ \A i \in 1..Len(steps) : steps[i] = ClaimedNewOrder[i]
    /\ completed <= Len(steps)
    /\ Len(steps) <= completed + 1
    /\ (physical_device # None => Len(steps) >= 3)
    /\ \A i \in 1..Len(CreateCalls) :
        /\ CreateCalls[i].deps_live
        /\ \A j \in 1..Len(CreateCalls) :
               (i < j => ConstructionRank(CreateCalls[i].handle[1])
                             <= ConstructionRank(CreateCalls[j].handle[1]))
    /\ (app_renderer # "none" => completed = Len(ClaimedNewOrder))

\* Construction has run all its steps and the Renderer is stored.
C4_Witness ==
    /\ pc = "running"
    /\ app_renderer = "some"
    /\ steps = ClaimedNewOrder
    /\ completed = 7

Failed == failure # None

\* What holds of every state: a failure is the last thing construction did.
AbortedAtFailure ==
    /\ (Failed =>
            /\ pc \in {"panicked", "aborted"}
            /\ app_renderer = "none"
            /\ (unwrap(failure) = "resumed" \/ Len(steps) = completed + 1))
    /\ \A i \in 1..Len(calls) : (~calls[i].ok => i = Len(calls) /\ Failed)
    /\ \A i, j \in 1..Len(steps) : (steps[i] = steps[j] => i = j)
    /\ \A i, j \in 1..Len(CreateCalls) :
           (CreateCalls[i].handle = CreateCalls[j].handle => i = j)
    /\ (app_renderer # "none" => ~Failed)

\* C5: a failure of any step aborts construction at that step: no later step
\* runs, the failed step is not tried again and no Renderer is ever stored.
C5_FailureAborts ==
    /\ []AbortedAtFailure
    /\ [][Failed =>
             /\ calls' = calls
             /\ steps' = steps
             /\ completed' = completed
             /\ live' = live
             /\ failure' = failure
             /\ app_renderer' = "none"]_vars

\* The shader binaries could not be read: construction was aborted in its
\* last step, after six steps had returned.
C5_Witness ==
    /\ pc = "aborted"
    /\ failure = Some("create_graphics_pipeline")
    /\ completed = 6
    /\ app_renderer = "none"

(***************************************************************************)
(* Properties of present-mode selection.                                   *)
(***************************************************************************)
ListsMode(modes, mode) == \E i \in 1..Len(modes) : modes[i] = mode

\* C11: over any list of supported modes, the empty list included,
\* chose_swapchain_present_mode returns MAILBOX whenever the list contains
\* MAILBOX and FIFO otherwise, even when FIFO is not in the list.
C11_MailboxOrFifo ==
    (pc = "returned" /\ surface_present_mode # Unset) =>
        /\ has_returned(unwrap(surface_present_mode))
        /\ (ListsMode(surface_present_modes, "MAILBOX")
                => (unwrap(surface_present_mode) = Returned("MAILBOX")))
        /\ ((~ListsMode(surface_present_modes, "MAILBOX"))
                => (unwrap(surface_present_mode) = Returned("FIFO")))

\* A list with neither MAILBOX nor FIFO has been answered with FIFO.
C11_Witness ==
    /\ pc = "returned"
    /\ Len(surface_present_modes) > 0
    /\ ~ListsMode(surface_present_modes, "MAILBOX")
    /\ ~ListsMode(surface_present_modes, "FIFO")
    /\ surface_present_mode = Some(Returned("FIFO"))

(***************************************************************************)
(* Properties of the swapchain's sharing mode.                             *)
(***************************************************************************)
\* C12: the sharing mode is CONCURRENT, listing both family indices, exactly
\* when the resolved graphics and present indices differ, and EXCLUSIVE
\* exactly when they are equal; families (graphics-only, present-only)
\* resolve to (0,1) with concurrent sharing, and a single family supporting
\* both resolves to equal indices with exclusive sharing.
C12_SharingMode ==
    (pc = "returned" /\ swapchain_sharing # Unset
        /\ has_returned(unwrap(swapchain_sharing))) =>
        LET indices == unwrap(queue_family_indices)
            g == unwrap(indices.graphics_family)
            p == unwrap(indices.present_family)
            info == unwrap(unwrap(swapchain_sharing))
            concurrent == /\ info.image_sharing_mode = "CONCURRENT"
                          /\ info.queue_family_index_count = 2
                          /\ info.p_queue_family_indices = <<g, p>>
            exclusive == info.image_sharing_mode = "EXCLUSIVE"
        IN /\ concurrent <=> (g # p)
           /\ exclusive <=> (g = p)
           /\ (queue_families = <<Graphics, Present>>)
                => (g = 0 /\ p = 1 /\ concurrent)
           /\ (queue_families = <<GraphicsPresent>>)
                => (g = p /\ exclusive)

\* The two-family list has been resolved and given concurrent sharing.
C12_Witness ==
    /\ pc = "returned"
    /\ queue_families = <<Graphics, Present>>
    /\ swapchain_sharing # Unset
    /\ has_returned(unwrap(swapchain_sharing))
    /\ unwrap(unwrap(swapchain_sharing)).image_sharing_mode = "CONCURRENT"

(***************************************************************************)
(* Properties of adapter suitability and selection.                        *)
(***************************************************************************)
HasFamily(device, capability) ==
    \E i \in 1..Len(device.families) : device.families[i][capability]

HasRequiredExtensions(device) == \A ext \in DEVICE_EXTENSIONS : ext \in device.extensions

\* C13: is_physical_device_suitable returns true if and only if the
\* candidate's queue families are complete, every required device extension
\* is in its supported list, and it reports at least one surface format and
\* at least one present mode; it returns false whenever a required extension
\* is absent, whatever the families, formats and present modes are.
C13_SuitableIff ==
    (pc = "returned" /\ suitable # Unset /\ has_returned(unwrap(suitable))) =>
        LET device == unwrap(candidate)
            answer == unwrap(unwrap(suitable))
        IN /\ answer <=> (/\ HasFamily(device, "graphics")
                          /\ HasFamily(device, "present")
                          /\ is_complete(find_queue_families(device.families))
                          /\ HasRequiredExtensions(device)
                          /\ Len(device.formats) >= 1
                          /\ Len(device.modes) >= 1)
           /\ (~HasRequiredExtensions(device)) => ~answer

\* An adapter with complete families, a format and a present mode, but
\* without the required extension, has been found unsuitable.
C13_Witness ==
    /\ pc = "returned"
    /\ suitable = Some(Returned(FALSE))
    /\ candidate # Unset
    /\ HasFamily(unwrap(candidate), "graphics")
    /\ HasFamily(unwrap(candidate), "present")
    /\ Len(unwrap(candidate).formats) >= 1
    /\ Len(unwrap(candidate).modes) >= 1
    /\ ~HasRequiredExtensions(unwrap(candidate))

\* C14: select_physical_device returns the first adapter in enumeration
\* order that is suitable: none enumerated before it is suitable and none
\* after it is examined; it fails fatally when the enumeration is empty, and
\* with "no suitable physical device found!" when no enumerated adapter is
\* suitable.
C14_FirstSuitable ==
    (pc = "returned" /\ selection # Unset
        /\ has_returned(unwrap(selection).enumerated)) =>
        LET devices == unwrap(unwrap(selection).enumerated)
            selected == unwrap(selection).selected
            Suitable == {j \in 1..Len(devices) : is_physical_device_suitable(devices[j])}
        IN /\ has_returned(selected.returned) =>
                (/\ unwrap(selected.returned) \in Suitable
                 /\ \A j \in Suitable : unwrap(selected.returned) <= j
                 /\ selected.examined = unwrap(selected.returned))
           /\ (Suitable # {}) => has_returned(selected.returned)
           /\ (Len(devices) = 0) => (selected.returned = Panicked)
           /\ (Len(devices) > 0 /\ Suitable = {}) =>
                (/\ selected.returned = Panicked
                 /\ selected.message = "no suitable physical device found!")
           /\ physical_device = selected.returned

\* The second of two adapters has been returned, after an unsuitable one.
C14_Witness ==
    /\ pc = "returned"
    /\ selection # Unset
    /\ Len(physical_devices) = 2
    /\ ~is_physical_device_suitable(physical_devices[1])
    /\ physical_device = Returned(2)
    /\ unwrap(selection).selected.examined = 2

(***************************************************************************)
(* Properties of the window events.                                        *)
(***************************************************************************)
\* Every handle the Renderer owns has been destroyed and the process is over.
TeardownComplete ==
    /\ pc = "exited"
    /\ app_renderer = "dropped"
    /\ live = {}
    /\ \A handle \in Created : DestroyCount(handle) = 1

\* C15: once a Renderer is constructed, a close request leads to the
\* Renderer's teardown running to completion, every destroy call issued,
\* before the process ends; a redraw request creates, destroys and modifies
\* no resource of the Renderer.
C15_CloseLeadsToTeardown ==
    /\ (pc = "exiting") ~> TeardownComplete
    /\ [][(pc = "running" /\ pc' = "running") =>
              UNCHANGED <<live, calls, app_renderer, app_window, physical_device,
                          swapchain_images, policyVars, deviceVars>>]_vars

\* A run with a redraw request has been closed and torn down.
C15_Witness ==
    /\ TeardownComplete
    /\ redraw_requested
    /\ Pipeline \in Created

(***************************************************************************)
(* Properties of the order of teardown, handle by handle.                  *)
(***************************************************************************)
\* The position in calls of the successful creation of a handle (0: none).
CreatedAt(handle) ==
    LET at == {i \in 1..Len(calls) : /\ calls[i].op = "create"
                                     /\ calls[i].ok
                                     /\ calls[i].handle = handle}
    IN IF at = {} THEN 0 ELSE CHOOSE i \in at : TRUE

\* The position in calls of the destruction of a handle by drop (0: none).
DroppedAt(handle) ==
    LET at == {i \in 1..Len(calls) : /\ calls[i].op = "destroy"
                                     /\ calls[i].by = "drop"
                                     /\ calls[i].handle = handle}
    IN IF at = {} THEN 0 ELSE CHOOSE i \in at : TRUE

\* C16: the resources the Renderer owns are destroyed in exact reverse
\* order of creation, one by one: of two resources the one created later is
\* destroyed earlier, the swapchain image views among themselves included.
C16_ExactReverseCreationOrder ==
    \A a \in Created, b \in Created :
        (/\ CreatedAt(a) < CreatedAt(b)
         /\ DroppedAt(a) > 0
         /\ DroppedAt(b) > 0) => (DroppedAt(b) < DroppedAt(a))

(***************************************************************************)
(* Properties of the queues of the logical device.                         *)
(***************************************************************************)
\* C17: create_logical_device issues exactly one queue-creation request per
\* distinct index among the graphics and present families, each for one
\* queue of priority 1.0: one request when the indices are equal, two when
\* they differ; the graphics and present queues retrieved afterwards are
\* queue 0 of their families, and the same queue when the families coincide.
C17_OneRequestPerFamily ==
    (pc = "returned" /\ device_queues # Unset
        /\ has_returned(unwrap(device_queues))) =>
        LET indices == unwrap(queue_family_indices)
            g == unwrap(indices.graphics_family)
            p == unwrap(indices.present_family)
            made == unwrap(unwrap(device_queues))
            infos == made.queue_create_infos
        IN /\ \A family \in {g, p} :
                  Cardinality({i \in 1..Len(infos) :
                                  infos[i].queue_family_index = family}) = 1
           /\ \A i \in 1..Len(infos) :
                  /\ infos[i].queue_family_index \in {g, p}
                  /\ infos[i].queue_count = 1
                  /\ infos[i].queue_priority = "1.0"
           /\ made.queue_create_info_count = Len(infos)
           /\ (g = p) => (Len(infos) = 1)
           /\ (g # p) => (Len(infos) = 2)
           /\ made.graphics_queue = <<"queue", g, 0>>
           /\ made.present_queue = <<"queue", p, 0>>
           /\ (g = p) => (made.graphics_queue = made.present_queue)

\* Of several families one serves both roles: one request, one queue.
C17_Witness ==
    /\ pc = "returned"
    /\ Len(queue_families) >= 2
    /\ device_queues # Unset
    /\ has_returned(unwrap(device_queues))
    /\ Len(unwrap(unwrap(device_queues)).queue_create_infos) = 1
    /\ unwrap(unwrap(device_queues)).graphics_queue
           = unwrap(unwrap(device_queues)).present_queue

(***************************************************************************)
(* Properties of the shader modules.                                       *)
(***************************************************************************)
ShaderModules == {VertShaderModule, FragShaderModule}

\* Whether a call names a shader module: as its handle or as what it reads.
NamesShaderModule(call) ==
    \/ call.handle \in ShaderModules
    \/ (call.op = "create" /\ CreateUses(call.handle) \cap ShaderModules # {})

\* C18: both shader modules exist when the graphics pipeline is created;
\* both are destroyed right after it, before construction returns and while
\* the logical device exists; no later call, those of teardown included,
\* names or destroys them again.
C18_TransientShaderModules ==
    \A k \in 1..Len(calls) :
        (calls[k].op = "create" /\ calls[k].handle = Pipeline) =>
            /\ calls[k].deps_live
            /\ \A i \in 1..(k - 1) :
                   (calls[i].handle \in ShaderModules) => (calls[i].op = "create")
            /\ calls[k].ok =>
                /\ (pc \notin {"destroy_frag_shader_module",
                               "destroy_vert_shader_module"})
                       => (/\ Len(calls) >= k + 2
                           /\ ShaderModules \cap live = {})
                /\ \A i \in (k + 1)..Len(calls) :
                       IF i <= k + 2
                       THEN /\ calls[i].op = "destroy"
                            /\ calls[i].handle \in ShaderModules
                            /\ calls[i].by = "new"
                            /\ calls[i].ok
                            /\ calls[i].deps_live
                       ELSE ~NamesShaderModule(calls[i])
                /\ (Len(calls) >= k + 2) => (calls[k + 1].handle # calls[k + 2].handle)

\* A Renderer whose pipeline was built with both modules has been torn down.
C18_Witness ==
    /\ pc = "exited"
    /\ app_renderer = "dropped"
    /\ Pipeline \in Created
    /\ DestroyCount(VertShaderModule) = 1
    /\ DestroyCount(FragShaderModule) = 1

(***************************************************************************)
(* Properties of the window's lifetime.                                    *)
(***************************************************************************)
\* C19: the window of the surface outlives the Renderer: on shutdown the
\* Renderer's teardown, the destruction of the surface and the swapchain
\* included, is over before the window is destroyed; whenever the window
\* of a constructed Renderer is gone, so are the Renderer, its surface and
\* its swapchain.
C19_WindowOutlivesRenderer ==
    (app_window = "dropped" /\ app_renderer # "none") =>
        /\ app_renderer = "dropped"
        /\ Surface \notin live
        /\ Swapchain \notin live

(***************************************************************************)
(* Properties of the adapter Renderer::new goes on with.                   *)
(***************************************************************************)
\* C20: with a driver that answers its queries the same each time, the
\* steps after selection never fail on an unresolved value for the adapter
\* selected: the queue families resolved again in create_logical_device and
\* in create_swapchain are complete and equal to those resolved when the
\* adapter was found suitable, and chose_swapchain_surface_format is given a
\* non-empty list.
C20_SelectedAdapterResolves ==
    has_returned(physical_device) =>
        LET at_suitability == find_queue_families(Selected.families)
        IN /\ is_complete(at_suitability)
           /\ (queue_family_indices # Unset) =>
                (/\ is_complete(unwrap(queue_family_indices))
                 /\ unwrap(queue_family_indices) = at_suitability)
           /\ (device_queues # Unset /\ ~has_returned(unwrap(device_queues))) =>
                (/\ calls[Len(calls)].handle = LogicalDevice
                 /\ calls[Len(calls)].op = "create"
                 /\ ~calls[Len(calls)].ok)
           /\ (surface_format # Unset) =>
                (/\ Len(surface_formats) > 0
                 /\ has_returned(unwrap(surface_format)))
           /\ (swapchain_sharing # Unset) =>
                (/\ has_returned(unwrap(swapchain_sharing))
                 /\ unwrap(unwrap(swapchain_sharing)).queue_family_indices
                        = at_suitability
                 /\ unwrap(unwrap(swapchain_sharing)).queue_family_indices
                        = unwrap(queue_family_indices))

\* The second adapter was selected after an unsuitable first one, and both
\* the logical device and the swapchain were created from it.
C20_Witness ==
    /\ physical_device = Returned(2)
    /\ ~is_physical_device_suitable(physical_devices[1])
    /\ LogicalDevice \in Created
    /\ Swapchain \in Created
    /\ swapchain_sharing # Unset
    /\ surface_format # Unset

(***************************************************************************)
(* Properties of the failures of chose_swapchain_extent.                   *)
(***************************************************************************)
\* The minimum extent is within the maximum extent on each axis.
BoundsOrdered(caps) ==
    /\ caps.min_image_extent.width <= caps.max_image_extent.width
    /\ caps.min_image_extent.height <= caps.max_image_extent.height

\* C21: chose_swapchain_extent is total: for every window size and every
\* capabilities record whose minimum extent is at most its maximum extent
\* on each axis, with the sentinel or without, it returns an extent; no
\* clamp is called with a lower bound above its upper bound.
C21_ExtentTotal ==
    (pc = "returned" /\ swapchain_extent # Unset
        /\ BoundsOrdered(surface_capabilities)) =>
        has_returned(unwrap(swapchain_extent))

====
